---- MODULE Spec2Model ----
(***************************************************************************)
(* Model of the dispatch core: SmartCache (TTL + frequency/recency         *)
(* eviction), StateManager (undo/redo history) and PolicyAgent.handle.     *)
(*                                                                         *)
(* JavaScript strings are modelled as sequences of tokens: "" is <<>>,     *)
(* "k1" is <<"k1">>, and a template literal is a concatenation.  A value   *)
(* of type `T | undefined` (or `T | null`) is modelled as a sequence of    *)
(* length at most one: <<>> is undefined/null and <<x>> is the value x.    *)
(***************************************************************************)
EXTENDS Integers, Sequences, FiniteSets, TLC

\* ------------------------------------------------------------------ bounds
MaxCap == 2        \* largest maxSize a cache is constructed with
Ttl == 1           \* the ttlMs a cache is constructed with
MaxTime == 2       \* the clock Date.now() runs over 0..MaxTime
MaxAccess == 1     \* reads of one live entry stop at this accessCount
MaxRecords == 3    \* record() calls on one StateManager
MaxSnaps == 1      \* snapshots kept for a later restoreSnapshot()
MaxBelowTail == 2  \* undo() calls below the last entry of a nearly full history
MaxTokens == 2     \* tokens of a message given to recognize() directly
MaxCalls == 2      \* handle() calls on one PolicyAgent
MaxPlugins == 1    \* plugins registered with use()

CacheKeys == {<<>>, <<"k1">>, <<"k2">>}
CacheValues == {"v1"}

VARIABLES
    cache,      \* SmartCache.cache: the Map's entries, in iteration (insertion) order
    maxSize,    \* SmartCache.options.maxSize
    ttlMs,      \* SmartCache.options.ttlMs
    now,        \* Date.now()
    cacheOp,    \* the set/get/has call that was the last step, if any: [op, key, ret]
    evicted,    \* entries the last set() removed from the Map
    setAt,      \* per key: time of the latest set() that was not since deleted,
                \* cleared or evicted; -1 if there is none
    history,       \* StateManager.history
    currentIndex,  \* StateManager.currentIndex
    recorded,      \* every entry record() has returned, in call order
    snapshots,     \* the snapshots getSnapshot() has returned
    histOp,        \* the last StateManager call: [op, ret]
    shape,         \* the calls so far are: "records" (only record), "undos" (records,
                   \* then undos, none of them at the floor), or "other"
    nUndo,         \* the number of undo() calls while shape is "undos"
    enableHistory, \* PolicyAgent.options.enableHistory
    processors,    \* PolicyAgent.processors: per intent type the handler, if any
    plugins,       \* PolicyAgent.plugins, in registration order
    calls,         \* the handle() calls: per call its context, its position in
                   \* handle() and what it has done so far
    recognizerOp,  \* the last IntentRecognizerImpl.recognize call: [op, message, ret]
    registry,      \* ProcessorRegistry.processors: the Map's entries
    registryOp,    \* the last ProcessorRegistry call: [op, processor | type, version, ret]
    builders       \* the chain builders created so far: per builder its kind, its
                   \* constructor argument, its options and the handle() call its
                   \* execute() made (0 if none)

cacheVars == <<cache, maxSize, ttlMs, now, cacheOp, evicted, setAt>>
histVars == <<history, currentIndex, recorded, snapshots, histOp, shape, nUndo>>
agentVars == <<enableHistory, processors, plugins, calls>>
recognizerVars == <<recognizerOp>>
registryVars == <<registry, registryOp>>
builderVars == <<builders>>
vars == <<cacheVars, histVars, agentVars, recognizerVars, registryVars, builderVars>>

\* --------------------------------------------------------- option values
Undefined == <<>>
Some(x) == <<x>>

\* ------------------------------------------------------- Map<K, CacheEntry>
MapHas(c, k) == \E i \in 1..Len(c) : c[i].key = k

MapGet(c, k) == c[CHOOSE i \in 1..Len(c) : c[i].key = k]

MapDelete(c, k) == SelectSeq(c, LAMBDA e : e.key # k)

\* Map.set keeps the position of a key that is already present
MapSet(c, k, e) ==
    IF MapHas(c, k)
    THEN [i \in 1..Len(c) |-> IF c[i].key = k THEN e ELSE c[i]]
    ELSE Append(c, e)

\* ------------------------------------------------------------- SmartCache
Infinity == 1000000

\* `if (lruKey)`: null and the empty string are falsy
Truthy(optKey) == optKey # Undefined /\ optKey[1] # <<>>

\* the loop of evictLRU, from entry i on; st = [lruKey, lruAccessCount, lruTime]
RECURSIVE evictScan_recencyFirst(_, _, _)
evictScan_recencyFirst(c, i, st) ==
    IF i > Len(c) THEN st
    ELSE LET entry == c[i] IN
         evictScan_recencyFirst(c, i + 1,
            IF entry.lastAccessed < st.lruTime
            THEN [lruKey |-> Some(entry.key),
                  lruAccessCount |-> entry.accessCount,
                  lruTime |-> entry.lastAccessed]
            ELSE st)

RECURSIVE evictScan(_, _, _)
evictScan(c, i, st) ==
    IF i > Len(c) THEN st
    ELSE LET entry == c[i] IN
         evictScan(c, i + 1,
            IF entry.accessCount < st.lruAccessCount
            THEN [lruKey |-> Some(entry.key),
                  lruAccessCount |-> entry.accessCount,
                  lruTime |-> entry.lastAccessed]
            ELSE IF entry.accessCount = st.lruAccessCount
                    /\ entry.lastAccessed < st.lruTime
            THEN [st EXCEPT !.lruKey = Some(entry.key),
                            !.lruTime = entry.lastAccessed]
            ELSE st)

\* an eviction that removes the entry that expires first
evictLRU_earliestExpiry(c) ==
    IF c = <<>> THEN c
    ELSE LET i == CHOOSE i \in 1..Len(c) :
                    \A j \in 1..Len(c) :
                        \/ c[i].expiresAt < c[j].expiresAt
                        \/ c[i].expiresAt = c[j].expiresAt /\ i <= j
         IN  MapDelete(c, c[i].key)

evictLRU(c) ==
    LET st == evictScan(c, 1, [lruKey |-> Undefined,
                               lruAccessCount |-> Infinity,
                               lruTime |-> Infinity])
    IN  IF Truthy(st.lruKey) THEN MapDelete(c, st.lruKey[1]) ELSE c

SmartCache_set(c, key, value, t, max, ttl) ==
    LET c1 == IF Len(c) >= max THEN evictLRU(c) ELSE c
    IN  MapSet(c1, key, [key |-> key,
                         value |-> value,
                         expiresAt |-> t + ttl,
                         accessCount |-> 0,
                         lastAccessed |-> t])

\* get returns the new Map and the returned value
SmartCache_get_noExpiry(c, key, t) ==
    IF ~MapHas(c, key) THEN [cache |-> c, ret |-> Undefined]
    ELSE LET entry == MapGet(c, key) IN
         [cache |-> MapSet(c, key, [entry EXCEPT !.accessCount = @ + 1,
                                                 !.lastAccessed = t]),
          ret |-> Some(entry.value)]

\* a get that refreshes lastAccessed but does not count the access
SmartCache_get_noCount(c, key, t) ==
    IF ~MapHas(c, key) THEN [cache |-> c, ret |-> Undefined]
    ELSE LET entry == MapGet(c, key) IN
         IF t > entry.expiresAt
         THEN [cache |-> MapDelete(c, key), ret |-> Undefined]
         ELSE [cache |-> MapSet(c, key, [entry EXCEPT !.lastAccessed = t]),
               ret |-> Some(entry.value)]

SmartCache_get(c, key, t) ==
    IF ~MapHas(c, key) THEN [cache |-> c, ret |-> Undefined]
    ELSE LET entry == MapGet(c, key) IN
         IF t > entry.expiresAt
         THEN [cache |-> MapDelete(c, key), ret |-> Undefined]
         ELSE [cache |-> MapSet(c, key, [entry EXCEPT !.accessCount = @ + 1,
                                                      !.lastAccessed = t]),
               ret |-> Some(entry.value)]

\* a has that looks at the entry without touching it
SmartCache_has_peek(c, key, t) ==
    [cache |-> c, ret |-> MapHas(c, key) /\ t <= MapGet(c, key).expiresAt]

SmartCache_has(c, key, t) ==
    LET r == SmartCache_get(c, key, t)
    IN  [cache |-> r.cache, ret |-> r.ret # Undefined]

SmartCache_delete(c, key) == MapDelete(c, key)

\* getStats: hitCount and missCount are never incremented, so hitRate is 0;
\* memoryUsage counts characters, which the token strings of the model do not
\* have, and is left out
SmartCache_getStats(c, max) == [size |-> Len(c), maxSize |-> max, hitRate |-> 0]

SmartCache_clear(c) == <<>>

\* ----------------------------------------------------------- StateManager
maxHistorySize == 100

Max(a, b) == IF a > b THEN a ELSE b
Min(a, b) == IF a < b THEN a ELSE b

\* Array.prototype.slice(start, end) with JavaScript's negative indices
ArraySlice(a, start, end) ==
    LET from == IF start < 0 THEN Max(Len(a) + start, 0) ELSE Min(start, Len(a))
        to == IF end < 0 THEN Max(Len(a) + end, 0) ELSE Min(end, Len(a))
    IN  SubSeq(a, from + 1, to)

\* generateId(): `${Date.now()}-${random}`, a fresh id per call
generateId(t, n) == <<t, n>>

getCurrent(h, idx) ==
    IF idx < 0 \/ idx >= Len(h) THEN Undefined ELSE Some(h[idx + 1])

\* record returns the new history, the new cursor and the entry it returns
record_noTruncate(h, idx, newEntry) ==
    LET h2 == Append(h, newEntry) IN
    [history |-> h2, currentIndex |-> Len(h2) - 1, ret |-> newEntry]

\* a size limit that keeps the oldest entries instead of the newest
record_keepOldest(h, idx, newEntry) ==
    LET h1 == IF idx < Len(h) - 1 THEN ArraySlice(h, 0, idx + 1) ELSE h
        h2 == Append(h1, newEntry)
        h3 == IF Len(h2) > maxHistorySize
              THEN ArraySlice(h2, 0, maxHistorySize)
              ELSE h2
    IN  [history |-> h3, currentIndex |-> Len(h3) - 1, ret |-> newEntry]

record(h, idx, newEntry) ==
    LET h1 == IF idx < Len(h) - 1 THEN ArraySlice(h, 0, idx + 1) ELSE h
        h2 == Append(h1, newEntry)
        h3 == IF Len(h2) > maxHistorySize
              THEN ArraySlice(h2, -maxHistorySize, Len(h2))
              ELSE h2
    IN  [history |-> h3, currentIndex |-> Len(h3) - 1, ret |-> newEntry]

undo_floorAtZero(h, idx) ==
    IF idx <= 0 THEN [currentIndex |-> idx, ret |-> Undefined]
    ELSE [currentIndex |-> idx - 1, ret |-> getCurrent(h, idx - 1)]

undo_noFloor(h, idx) ==
    [currentIndex |-> idx - 1, ret |-> getCurrent(h, idx - 1)]

undo(h, idx) ==
    IF idx < 0 THEN [currentIndex |-> idx, ret |-> Undefined]
    ELSE [currentIndex |-> idx - 1, ret |-> getCurrent(h, idx - 1)]

\* a redo that jumps to the last entry
redo_toTail(h, idx) ==
    IF idx >= Len(h) - 1 THEN [currentIndex |-> idx, ret |-> Undefined]
    ELSE [currentIndex |-> Len(h) - 1, ret |-> getCurrent(h, Len(h) - 1)]

redo(h, idx) ==
    IF idx >= Len(h) - 1 THEN [currentIndex |-> idx, ret |-> Undefined]
    ELSE [currentIndex |-> idx + 1, ret |-> getCurrent(h, idx + 1)]

getSnapshot(h, idx) == [entries |-> h, currentIndex |-> idx]

restoreSnapshot(snapshot) ==
    [history |-> snapshot.entries, currentIndex |-> snapshot.currentIndex]

StateManager_clear == [history |-> <<>>, currentIndex |-> -1]

size(h) == Len(h)

recent(h, n) == ArraySlice(h, -n, Len(h))

\* ------------------------------------------------------ ProcessorRegistry
\* `${type}@${version || 'latest'}`: an absent or empty version reads 'latest'
registryKey(type, version) ==
    <<type, "@", IF version = Undefined \/ version = Some("") THEN "latest"
                 ELSE version[1]>>

ProcessorRegistry_register(reg, processor) ==
    LET key == registryKey(processor.type, processor.version)
    IN  MapSet(reg, key, [key |-> key, value |-> processor])

ProcessorRegistry_get(reg, type, version) ==
    LET key == registryKey(type, version)
    IN  IF MapHas(reg, key) THEN Some(MapGet(reg, key).value) ELSE Undefined

ProcessorRegistry_has(reg, type, version) == MapHas(reg, registryKey(type, version))

ProcessorRegistry_getAll(reg) == [i \in 1..Len(reg) |-> reg[i].value]

\* ------------------------------------------------------- IntentRecognizerImpl
\* A message is a sequence of whitespace-separated tokens; " " is a token of
\* leading or trailing whitespace.  The tokens the model's messages are made of:
\*   commands  /analyze /review /price /export /help
\*   keywords  one per alternative of the pattern table; a Chinese keyword is
\*             written zh_<pinyin> (zh_fenxi, zh_baogao, ...)
\*   others    report-1 report-2 100 hello

IntentTypes == <<"analyze", "review", "pricing", "export", "help", "unknown">>

\* patterns: per type the RegExp list; a RegExp is [anchored, alts]: `^\/cmd`
\* is anchored at the start, the others match any of their alternatives anywhere
patterns == [
    analyze |-> << [anchored |-> TRUE,  alts |-> {"/analyze"}],
                   [anchored |-> FALSE, alts |-> {"zh_fenxi", "zh_jiance", "zh_shencha"}],
                   [anchored |-> FALSE, alts |-> {"zh_hegui", "zh_zhengce"}],
                   [anchored |-> FALSE, alts |-> {"zh_kankan", "zh_jiancha"}] >>,
    review  |-> << [anchored |-> TRUE,  alts |-> {"/review"}],
                   [anchored |-> FALSE, alts |-> {"zh_pinglun", "zh_fankui"}],
                   [anchored |-> FALSE, alts |-> {"zh_daichuli", "zh_daiyue"}],
                   [anchored |-> FALSE, alts |-> {"zh_wenti", "zh_yijian"}] >>,
    pricing |-> << [anchored |-> TRUE,  alts |-> {"/price"}],
                   [anchored |-> FALSE, alts |-> {"zh_dingjia", "zh_jiage"}],
                   [anchored |-> FALSE, alts |-> {"zh_chengben", "zh_feiyong"}],
                   [anchored |-> FALSE, alts |-> {"zh_duoshaoqian"}] >>,
    export  |-> << [anchored |-> TRUE,  alts |-> {"/export"}],
                   [anchored |-> FALSE, alts |-> {"zh_daochu", "zh_xiazai"}],
                   [anchored |-> FALSE, alts |-> {"zh_shengcheng", "zh_chuangjian"}],
                   [anchored |-> FALSE, alts |-> {"pdf", "docx", "pptx"}] >>,
    help    |-> << [anchored |-> TRUE,  alts |-> {"/help"}],
                   [anchored |-> FALSE, alts |-> {"zh_bangzhu", "zh_shuoming"}],
                   [anchored |-> FALSE, alts |-> {"zh_zenmeyong", "zh_ruhe"}] >>,
    unknown |-> << >> ]

\* String.prototype.toLowerCase on a token
toLowerCase(tok) ==
    CASE tok = "PDF" -> "pdf"
      [] tok = "/PRICE" -> "/price"
      [] tok = "DOCX" -> "docx"
      [] tok = "PPTX" -> "pptx"
      [] OTHER -> tok

RECURSIVE trimStart(_)
trimStart(m) == IF m # <<>> /\ Head(m) = " " THEN trimStart(Tail(m)) ELSE m

RECURSIVE trimEnd(_)
trimEnd(m) ==
    IF m # <<>> /\ m[Len(m)] = " " THEN trimEnd(SubSeq(m, 1, Len(m) - 1)) ELSE m

\* message.trim().toLowerCase()
trim(m) == trimEnd(trimStart(m))

lowered(m) == [i \in 1..Len(m) |-> toLowerCase(m[i])]

\* RegExp.test: the tokens of the model contain a pattern alternative only as
\* a whole token
test(pattern, m) ==
    IF pattern.anchored
    THEN m # <<>> /\ m[1] \in pattern.alts
    ELSE \E i \in 1..Len(m) : m[i] \in pattern.alts

\* the first decimal digit run of a token, as parseInt reads it; -1 if none
digits(tok) ==
    CASE tok = "100" -> 100
      [] tok = "report-1" -> 1
      [] tok = "report-2" -> 2
      [] OTHER -> -1

\* the token following the first token `marker`, if any: /marker[:]?\s*([^\s]+)/
after(m, marker) ==
    LET at == {i \in 1..(Len(m) - 1) : m[i] = marker /\ m[i + 1] # " "}
    IN  IF at # {}
        THEN Some(m[(CHOOSE i \in at : \A j \in at : i <= j) + 1])
        ELSE Undefined

\* a property value is a number or a string
JSNumber(n) == [num |-> n]
JSString(str) == [str |-> str]

\* params: the object's properties as <<name, value>> pairs in insertion order
extractParams(message, type) ==
    CASE type = "analyze" ->
            \* the model's tokens carry no quoted content
            IF after(message, "zh_gongsi") # Undefined
            THEN << <<"company", JSString(<<after(message, "zh_gongsi")[1]>>)>> >>
            ELSE << >>
      [] type = "review" ->
            IF after(message, "zh_baogao") # Undefined
            THEN << <<"reportId", JSString(<<after(message, "zh_baogao")[1]>>)>> >>
            ELSE << >>
      [] type = "pricing" ->
            LET at == {i \in 1..Len(message) : digits(message[i]) >= 0}
            IN  IF at # {}
                THEN << <<"amount",
                          JSNumber(digits(message[CHOOSE i \in at : \A j \in at : i <= j]))>> >>
                ELSE << >>
      [] type = "export" ->
            IF \E i \in 1..Len(message) : toLowerCase(message[i]) = "pdf"
            THEN << <<"format", JSString(<<"pdf">>)>> >>
            ELSE IF \E i \in 1..Len(message) : toLowerCase(message[i]) = "docx"
            THEN << <<"format", JSString(<<"docx">>)>> >>
            ELSE IF \E i \in 1..Len(message) : toLowerCase(message[i]) = "pptx"
            THEN << <<"format", JSString(<<"pptx">>)>> >>
            ELSE << >>
      [] OTHER -> << >>

\* whether one of the patterns of `type` matches
matches(type, m) == \E i \in 1..Len(patterns[type]) : test(patterns[type][i], m)

\* a recognizer that lets the slash command at the start of the message decide
recognize_commandFirst(message) ==
    LET trimmed == lowered(trim(message))
        hits == {t \in 1..Len(IntentTypes) :
                    IntentTypes[t] # "unknown" /\ matches(IntentTypes[t], trimmed)}
        cmds == {t \in hits : test(patterns[IntentTypes[t]][1], trimmed)}
        pick == IF cmds # {} THEN cmds ELSE hits
    IN  IF hits # {}
        THEN LET type == IntentTypes[CHOOSE t \in pick : \A u \in pick : t <= u]
             IN  [type |-> type,
                  params |-> extractParams(message, type),
                  confidence |-> <<85, 95>>]
        ELSE [type |-> "unknown",
              params |-> << <<"raw", JSString(message)>> >>,
              confidence |-> <<50, 50>>]

\* the first type, in table order, one of whose patterns matches;
\* confidence is 0.85 + Math.random() * 0.1 on a match, modelled by the
\* interval it lies in (in hundredths), and 0.5 otherwise
recognize(message) ==
    LET trimmed == lowered(trim(message))
        hits == {t \in 1..Len(IntentTypes) :
                    IntentTypes[t] # "unknown" /\ matches(IntentTypes[t], trimmed)}
    IN  IF hits # {}
        THEN LET type == IntentTypes[CHOOSE t \in hits : \A u \in hits : t <= u]
             IN  [type |-> type,
                  params |-> extractParams(message, type),
                  confidence |-> <<85, 95>>]
        ELSE [type |-> "unknown",
              params |-> << <<"raw", JSString(message)>> >>,
              confidence |-> <<50, 50>>]

\* JSON.stringify of a value: a number is printed bare, a string between
\* double quotes
stringifyValue(v) ==
    IF "num" \in DOMAIN v THEN <<ToString(v.num)>>
    ELSE <<"\"">> \o v.str \o <<"\"">>

\* JSON.stringify of params, from property i on
RECURSIVE stringifyFrom(_, _)
stringifyFrom(params, i) ==
    IF i > Len(params) THEN << >>
    ELSE (IF i > 1 THEN <<",">> ELSE << >>)
         \o <<"\"", params[i][1], "\"", ":">>
         \o stringifyValue(params[i][2])
         \o stringifyFrom(params, i + 1)

JSONstringify(params) == <<"{">> \o stringifyFrom(params, 1) \o <<"}">>

\* a key that also names the sender
generateCacheKey_withUser(intent, ctx) ==
    <<ctx.channel, ":", intent.type, ":">> \o JSONstringify(intent.params)
        \o <<":", ctx.user>>

\* `${ctx.channel}:${intent.type}:${JSON.stringify(intent.params)}`
generateCacheKey(intent, ctx) ==
    <<ctx.channel, ":", intent.type, ":">> \o JSONstringify(intent.params)

\* ------------------------------------------------------------ PolicyAgent
TypeSet == {IntentTypes[t] : t \in 1..Len(IntentTypes)}

\* the four processors the constructor registers
createComplianceProcessor == [type |-> "compliance", artifactType |-> "compliance-report", custom |-> FALSE]
createReviewProcessor == [type |-> "review", artifactType |-> "review-comments", custom |-> FALSE]
createPricingProcessor == [type |-> "pricing", artifactType |-> "pricing-calculator", custom |-> FALSE]
createExportProcessor == [type |-> "export", artifactType |-> "file-export", custom |-> FALSE]

initDefaultProcessors ==
    [t \in TypeSet |->
        CASE t = "analyze" -> Some(createComplianceProcessor)
          [] t = "review" -> Some(createReviewProcessor)
          [] t = "pricing" -> Some(createPricingProcessor)
          [] t = "export" -> Some(createExportProcessor)
          [] OTHER -> Undefined]

\* a processor passed to registerProcessor: its execute may resolve with or
\* without an artifact, or reject
customProcessor == [type |-> "custom", artifactType |-> "custom-artifact", custom |-> TRUE]

\* execute of a processor at time t: { artifact: { id: `${type}-${Date.now()}`, type, data: params } }
execute(processor, params, t) ==
    [artifact |-> Some([id |-> <<processor.type, "-", ToString(t)>>,
                        type |-> processor.artifactType,
                        data |-> params])]

\* a value thrown by a hook or a handler
Error(message) == [instanceofError |-> TRUE, message |-> message]

NoResult == [success |-> FALSE, artifact |-> Undefined, fromCache |-> Undefined,
             duration |-> 0, error |-> Undefined]

idleCall ==
    [pc |-> "idle", message |-> <<>>, channel |-> "slack", user |-> "u1",
     startTime |-> 0, i |-> 0,
     intent |-> Undefined, cacheKey |-> Undefined, result |-> Undefined,
     settled |-> "pending", ret |-> NoResult,
     invoked |-> 0, nRecorded |-> 0, thrown |-> Undefined, overlapped |-> FALSE,
     lookupAt |-> -1, storedAt |-> -1, steps |-> <<>>]

\* call w.call has taken the step `name` of handle() (for plugin i, if a hook)
did(w, name, i) == [w EXCEPT !.call.steps = Append(@, <<name, i>>)]

\* a state of the agent's collaborators while one handle() call runs
World(call, c, h, idx, rec, t) ==
    [call |-> call, cache |-> c, history |-> h, currentIndex |-> idx,
     recorded |-> rec, now |-> t]

\* `return {...}` from handle()
return(w, ret) ==
    [did(w, "return", 0) EXCEPT
        !.call.pc = "done", !.call.settled = "returned", !.call.ret = ret]

\* a throw that leaves handle() uncaught
catch_rethrow(w, error) ==
    [w EXCEPT !.call.pc = "done", !.call.settled = "rejected", !.call.thrown = Some(error)]

\* the catch block of handle()
catch(w, error) ==
    return([w EXCEPT !.call.thrown = Some(error)],
           [NoResult EXCEPT
               !.error = Some(IF error.instanceofError THEN error.message
                              ELSE <<"String(error)">>),
               !.duration = w.now - w.call.startTime])

\* a final return that stores whatever the handler returned, artifact or not
finish_storeAlways(w, max, ttl) ==
    LET result == w.call.result[1]
        c2 == SmartCache_set(w.cache, w.call.cacheKey[1],
                             IF result.artifact # Undefined THEN result.artifact[1]
                             ELSE "undefined",
                             w.now, max, ttl)
    IN  return([did(w, "store", 0) EXCEPT !.cache = c2, !.call.storedAt = w.now],
               [NoResult EXCEPT !.success = TRUE,
                                !.artifact = result.artifact,
                                !.fromCache = Some(FALSE),
                                !.duration = w.now - w.call.startTime])

\* a final return that leaves out the cache store of step 8
finish_noStore(w, max, ttl) ==
    LET result == w.call.result[1]
    IN  return([w EXCEPT !.call.storedAt =
                            IF result.artifact # Undefined THEN w.now ELSE -1],
               [NoResult EXCEPT !.success = TRUE,
                                !.artifact = result.artifact,
                                !.fromCache = Some(FALSE),
                                !.duration = w.now - w.call.startTime])

\* a final return whose store keeps an entry the key already has
finish_keepFirst(w, max, ttl) ==
    LET result == w.call.result[1]
        stored == result.artifact # Undefined
        c2 == IF stored /\ ~MapHas(w.cache, w.call.cacheKey[1])
              THEN SmartCache_set(w.cache, w.call.cacheKey[1], result.artifact[1],
                                  w.now, max, ttl)
              ELSE w.cache
    IN  return([(IF stored THEN did(w, "store", 0) ELSE w) EXCEPT
                   !.cache = c2,
                   !.call.storedAt = IF stored THEN w.now ELSE -1],
               [NoResult EXCEPT !.success = TRUE,
                                !.artifact = result.artifact,
                                !.fromCache = Some(FALSE),
                                !.duration = w.now - w.call.startTime])

\* steps 8 and 9: the cache store and the final return
finish(w, max, ttl) ==
    LET result == w.call.result[1]
        stored == result.artifact # Undefined
        c2 == IF stored
              THEN SmartCache_set(w.cache, w.call.cacheKey[1], result.artifact[1],
                                  w.now, max, ttl)
              ELSE w.cache
    IN  return([(IF stored THEN did(w, "store", 0) ELSE w) EXCEPT
                   !.cache = c2,
                   !.call.storedAt = IF stored THEN w.now ELSE -1],
               [NoResult EXCEPT !.success = TRUE,
                                !.artifact = result.artifact,
                                !.fromCache = Some(FALSE),
                                !.duration = w.now - w.call.startTime])

\* step 7 from plugin i on: the next post-hook is awaited, or handle() finishes
postHooks(w, i, plugs, max, ttl) ==
    IF i <= Len(plugs)
    THEN [did(w, "post", i) EXCEPT !.call.pc = "post", !.call.i = i]
    ELSE finish(w, max, ttl)

\* steps 6 to 9 without the post-hooks of step 7
afterExecute_noPostHooks(w, result, plugs, history_on, max, ttl) ==
    LET entry == [id |-> generateId(w.now, Len(w.recorded) + 1),
                  intent |-> w.call.intent[1],
                  result |-> result,
                  timestamp |-> w.now,
                  duration |-> w.now - w.call.startTime]
        r == record(w.history, w.currentIndex, entry)
        w1 == [w EXCEPT !.call.result = Some(result)]
        w2 == IF history_on
              THEN [did(w1, "record", 0) EXCEPT
                              !.history = r.history,
                              !.currentIndex = r.currentIndex,
                              !.recorded = Append(w.recorded, r.ret),
                              !.call.nRecorded = @ + 1]
              ELSE w1
    IN  finish(w2, max, ttl)

\* steps 6 to 9 with the cache store done ahead of the post-hooks
afterExecute_storeBeforeHooks(w, result, plugs, history_on, max, ttl) ==
    LET entry == [id |-> generateId(w.now, Len(w.recorded) + 1),
                  intent |-> w.call.intent[1],
                  result |-> result,
                  timestamp |-> w.now,
                  duration |-> w.now - w.call.startTime]
        r == record(w.history, w.currentIndex, entry)
        w1 == [w EXCEPT !.call.result = Some(result)]
        w2 == IF history_on
              THEN [did(w1, "record", 0) EXCEPT
                              !.history = r.history,
                              !.currentIndex = r.currentIndex,
                              !.recorded = Append(w.recorded, r.ret),
                              !.call.nRecorded = @ + 1]
              ELSE w1
        w3 == IF result.artifact # Undefined
              THEN [did(w2, "store", 0) EXCEPT
                      !.cache = SmartCache_set(w2.cache, w.call.cacheKey[1],
                                               result.artifact[1], w.now, max, ttl)]
              ELSE w2
    IN  postHooks(w3, 1, plugs, max, ttl)

\* steps 6 to 9 once processor.execute has resolved with `result`
afterExecute(w, result, plugs, history_on, max, ttl) ==
    LET entry == [id |-> generateId(w.now, Len(w.recorded) + 1),
                  intent |-> w.call.intent[1],
                  result |-> result,
                  timestamp |-> w.now,
                  duration |-> w.now - w.call.startTime]
        r == record(w.history, w.currentIndex, entry)
        w1 == [w EXCEPT !.call.result = Some(result)]
        w2 == IF history_on
              THEN [did(w1, "record", 0) EXCEPT
                              !.history = r.history,
                              !.currentIndex = r.currentIndex,
                              !.recorded = Append(w.recorded, r.ret),
                              !.call.nRecorded = @ + 1]
              ELSE w1
    IN  postHooks(w2, 1, plugs, max, ttl)

\* steps 2 to 5 up to the await of processor.execute; the clock may advance by
\* d between the has() and the get() of the cache check
recognizeAndLookup_noHandlerCheck(w, d, procs) ==
    LET intent == recognize(w.call.message)
        cacheKey == generateCacheKey(intent, w.call)
        h == SmartCache_has(w.cache, cacheKey, w.now)
        g == SmartCache_get(h.cache, cacheKey, w.now + d)
        w1 == [did(did(w, "recognize", 0), "lookup", 0) EXCEPT
                  !.call.intent = Some(intent), !.call.cacheKey = Some(cacheKey)]
    IN  IF h.ret
        THEN return([w1 EXCEPT !.cache = g.cache, !.now = w.now + d,
                               !.call.lookupAt = w.now + d],
                    [NoResult EXCEPT !.success = TRUE,
                                     !.artifact = g.ret,
                                     !.fromCache = Some(TRUE),
                                     !.duration = w.now + d - w.call.startTime])
        ELSE IF procs[intent.type] = Undefined
        THEN catch([w1 EXCEPT !.cache = h.cache, !.call.lookupAt = w.now],
                   Error(<<"Cannot read properties of undefined (reading 'execute')">>))
        ELSE [did(w1, "handler", 0) EXCEPT
                        !.cache = h.cache,
                        !.call.lookupAt = w.now,
                        !.call.pc = "exec",
                        !.call.invoked = @ + 1,
                        !.call.result =
                            IF procs[intent.type][1].custom THEN Undefined
                            ELSE Some(execute(procs[intent.type][1], intent.params, w.now))]

recognizeAndLookup(w, d, procs) ==
    LET intent == recognize(w.call.message)
        cacheKey == generateCacheKey(intent, w.call)
        h == SmartCache_has(w.cache, cacheKey, w.now)
        g == SmartCache_get(h.cache, cacheKey, w.now + d)
        w1 == [did(did(w, "recognize", 0), "lookup", 0) EXCEPT
                  !.call.intent = Some(intent), !.call.cacheKey = Some(cacheKey)]
    IN  IF h.ret
        THEN return([w1 EXCEPT !.cache = g.cache, !.now = w.now + d,
                               !.call.lookupAt = w.now + d],
                    [NoResult EXCEPT !.success = TRUE,
                                     !.artifact = g.ret,
                                     !.fromCache = Some(TRUE),
                                     !.duration = w.now + d - w.call.startTime])
        ELSE IF procs[intent.type] = Undefined
        THEN return([w1 EXCEPT !.cache = h.cache, !.call.lookupAt = w.now],
                    [NoResult EXCEPT
                        !.error = Some(<<"zh_weizhaodaochuliqi", ": ", intent.type>>),
                        !.duration = w.now - w.call.startTime])
        ELSE [did(w1, "handler", 0) EXCEPT
                        !.cache = h.cache,
                        !.call.lookupAt = w.now,
                        !.call.pc = "exec",
                        !.call.invoked = @ + 1,
                        !.call.result =
                            IF procs[intent.type][1].custom THEN Undefined
                            ELSE Some(execute(procs[intent.type][1], intent.params, w.now))]

\* step 1 from plugin i on: the next pre-hook is awaited, or handle() goes on
preHooks(w, i, d, plugs, procs) ==
    IF i <= Len(plugs)
    THEN [did(w, "pre", i) EXCEPT !.call.pc = "pre", !.call.i = i]
    ELSE recognizeAndLookup(w, d, procs)

\* whether d is a clock advance the cache check of world w can see
Advance(w, d) ==
    /\ w.now + d <= MaxTime
    /\ d = 1 =>
          LET key == generateCacheKey(recognize(w.call.message), w.call)
          IN  SmartCache_has(w.cache, key, w.now).ret

\* ------------------------------------------------------- the chain builders
OptionNames(kind) ==
    CASE kind = "analyze" -> {"company", "category", "strictMode"}
      [] kind = "review" -> {"filter", "status"}
      [] kind = "export" -> {"template", "filename"}
      [] OTHER -> {}

\* new AnalyzeBuilder / ReviewBuilder / PricingBuilder / ExportBuilder(arg, agent):
\* the constructor keeps its argument and starts with no options
NewBuilder(kind, arg) ==
    [kind |-> kind, arg |-> arg,
     options |-> [n \in OptionNames(kind) |-> Undefined], call |-> 0]

\* withCompany, withCategory, strict, withFilter, withStatus, withTemplate,
\* withFilename: this.options[name] = value
Builder_with(b, name, value) == [b EXCEPT !.options[name] = Some(value)]

\* the context execute() hands to agent.handle
Context(message) == [user |-> "default", message |-> message, channel |-> "slack"]

\* an execute() that puts the company option into the message
AnalyzeBuilder_execute_withCompany(b) ==
    Context(IF b.options["company"] # Undefined
            THEN <<"/analyze", b.arg, "zh_gongsi", b.options["company"][1]>>
            ELSE <<"/analyze", b.arg>>)

\* message: `/analyze ${this.content}`
AnalyzeBuilder_execute(b) == Context(<<"/analyze", b.arg>>)

\* message: `/review ${this.reportId}`
ReviewBuilder_execute(b) == Context(<<"/review", b.arg>>)

\* message: `/price`
PricingBuilder_execute(b) == Context(<<"/price">>)

\* message: `/export ${this.format}`
ExportBuilder_execute(b) == Context(<<"/export", b.arg>>)

Builder_execute(b) ==
    CASE b.kind = "analyze" -> AnalyzeBuilder_execute(b)
      [] b.kind = "review" -> ReviewBuilder_execute(b)
      [] b.kind = "pricing" -> PricingBuilder_execute(b)
      [] b.kind = "export" -> ExportBuilder_execute(b)

\* ------------------------------------------------- SmartCache, driven directly
Removed(c, c2) == SelectSeq(c, LAMBDA e : ~MapHas(c2, e.key))

InitCache ==
    /\ cache = <<>>
    /\ maxSize \in 0..MaxCap
    /\ ttlMs = Ttl
    /\ now = 0
    /\ cacheOp = [op |-> "other", key |-> <<>>, ret |-> Undefined]
    /\ evicted = <<>>
    /\ setAt = [k \in CacheKeys |-> -1]

CacheSet(k, v) ==
    /\ cache' = SmartCache_set(cache, k, v, now, maxSize, ttlMs)
    /\ evicted' = IF Len(cache) >= maxSize THEN Removed(cache, evictLRU(cache)) ELSE <<>>
    /\ setAt' = [kk \in CacheKeys |->
                    IF kk = k THEN now
                    ELSE IF \E i \in 1..Len(evicted') : evicted'[i].key = kk THEN -1
                    ELSE setAt[kk]]
    /\ cacheOp' = [op |-> "set", key |-> k, ret |-> Undefined]
    /\ UNCHANGED <<maxSize, ttlMs, now>>

CacheGet(k) ==
    LET r == SmartCache_get(cache, k, now) IN
    /\ MapHas(cache, k) => MapGet(cache, k).accessCount < MaxAccess
    /\ cache' = r.cache
    /\ cacheOp' = [op |-> "get", key |-> k, ret |-> r.ret]
    /\ evicted' = <<>>
    /\ UNCHANGED <<maxSize, ttlMs, now, setAt>>

CacheHas(k) ==
    LET r == SmartCache_has(cache, k, now) IN
    /\ MapHas(cache, k) => MapGet(cache, k).accessCount < MaxAccess
    /\ cache' = r.cache
    /\ cacheOp' = [op |-> "has", key |-> k, ret |-> Some(r.ret)]
    /\ evicted' = <<>>
    /\ UNCHANGED <<maxSize, ttlMs, now, setAt>>

CacheDelete(k) ==
    /\ cache' = SmartCache_delete(cache, k)
    /\ setAt' = [setAt EXCEPT ![k] = -1]
    /\ cacheOp' = [op |-> "other", key |-> <<>>, ret |-> Undefined]
    /\ evicted' = <<>>
    /\ UNCHANGED <<maxSize, ttlMs, now>>

CacheClear ==
    /\ cache' = SmartCache_clear(cache)
    /\ setAt' = [k \in CacheKeys |-> -1]
    /\ cacheOp' = [op |-> "other", key |-> <<>>, ret |-> Undefined]
    /\ evicted' = <<>>
    /\ UNCHANGED <<maxSize, ttlMs, now>>

Tick ==
    /\ now < MaxTime
    /\ now' = now + 1
    /\ cacheOp' = [op |-> "other", key |-> <<>>, ret |-> Undefined]
    /\ evicted' = <<>>
    /\ UNCHANGED <<cache, maxSize, ttlMs, setAt>>

CacheNext ==
    \/ \E k \in CacheKeys, v \in CacheValues : CacheSet(k, v)
    \/ \E k \in CacheKeys : CacheGet(k)
    \/ \E k \in CacheKeys : CacheHas(k)
    \/ \E k \in CacheKeys : CacheDelete(k)
    \/ CacheClear
    \/ Tick

\* ----------------------------------------------- StateManager, driven directly
HistIntents == {"analyze", "review"}

InitHist ==
    /\ history = <<>>
    /\ currentIndex = -1
    /\ recorded = <<>>
    /\ snapshots = {}
    /\ histOp = [op |-> "new", ret |-> Undefined]
    /\ shape = "records"
    /\ nUndo = 0

HistRecord(type) ==
    /\ Len(recorded) < MaxRecords
    /\ LET entry == [id |-> generateId(now, Len(recorded) + 1),
                     intent |-> [type |-> type, params |-> <<>>],
                     result |-> [success |-> TRUE],
                     timestamp |-> now,
                     duration |-> 100]
           r == record(history, currentIndex, entry)
       IN  /\ history' = r.history
           /\ currentIndex' = r.currentIndex
           /\ recorded' = Append(recorded, r.ret)
           /\ histOp' = [op |-> "record", ret |-> Some(r.ret)]
    /\ shape' = IF shape = "records" THEN "records" ELSE "other"
    /\ nUndo' = 0
    /\ UNCHANGED snapshots

HistUndo ==
    LET r == undo(history, currentIndex) IN
    /\ currentIndex' = r.currentIndex
    /\ histOp' = [op |-> "undo", ret |-> r.ret]
    /\ shape' = IF shape \in {"records", "undos"} /\ nUndo < Len(recorded)
                THEN "undos" ELSE "other"
    /\ nUndo' = IF shape' = "undos" THEN nUndo + 1 ELSE 0
    /\ UNCHANGED <<history, recorded, snapshots>>

HistRedo ==
    LET r == redo(history, currentIndex) IN
    /\ currentIndex' = r.currentIndex
    /\ histOp' = [op |-> "redo", ret |-> r.ret]
    /\ shape' = "other"
    /\ nUndo' = 0
    /\ UNCHANGED <<history, recorded, snapshots>>

HistClear ==
    /\ history' = StateManager_clear.history
    /\ currentIndex' = StateManager_clear.currentIndex
    /\ histOp' = [op |-> "clear", ret |-> Undefined]
    /\ shape' = "other"
    /\ nUndo' = 0
    /\ UNCHANGED <<recorded, snapshots>>

HistGetSnapshot ==
    /\ Cardinality(snapshots \cup {getSnapshot(history, currentIndex)}) <= MaxSnaps
    /\ snapshots' = snapshots \cup {getSnapshot(history, currentIndex)}
    /\ histOp' = [op |-> "getSnapshot", ret |-> Undefined]
    /\ shape' = "other"
    /\ nUndo' = 0
    /\ UNCHANGED <<history, currentIndex, recorded>>

HistRestoreSnapshot(snapshot) ==
    LET r == restoreSnapshot(snapshot) IN
    /\ history' = r.history
    /\ currentIndex' = r.currentIndex
    /\ histOp' = [op |-> "restoreSnapshot", ret |-> Undefined]
    /\ shape' = "other"
    /\ nUndo' = 0
    /\ UNCHANGED <<recorded, snapshots>>

\* recent(n), a read: the history and the cursor stay as they are
HistRecent(n) ==
    /\ histOp' = [op |-> "recent", ret |-> recent(history, n), n |-> n]
    /\ UNCHANGED <<history, currentIndex, recorded, snapshots, shape, nUndo>>

HistNext ==
    \/ \E n \in 0..(MaxRecords + 1) : HistRecent(n) /\ UNCHANGED <<cacheVars, agentVars>>
    \/ \E type \in HistIntents : HistRecord(type) /\ UNCHANGED <<cacheVars, agentVars>>
    \/ HistUndo /\ UNCHANGED <<cacheVars, agentVars>>
    \/ HistRedo /\ UNCHANGED <<cacheVars, agentVars>>
    \/ HistClear /\ UNCHANGED <<cacheVars, agentVars>>
    \/ HistGetSnapshot /\ UNCHANGED <<cacheVars, agentVars>>
    \/ \E snapshot \in snapshots : HistRestoreSnapshot(snapshot) /\ UNCHANGED <<cacheVars, agentVars>>

\* a StateManager one record() short of the size limit: the entries of
\* maxHistorySize - 1 earlier record() calls, made before the clock of the
\* model started, with the cursor on the last of them
earlierEntry(n) ==
    [id |-> generateId(-1, n),
     intent |-> [type |-> "analyze", params |-> <<>>],
     result |-> [success |-> TRUE],
     timestamp |-> -1,
     duration |-> 100]

InitHistFull ==
    /\ history = [n \in 1..(maxHistorySize - 1) |-> earlierEntry(n)]
    /\ currentIndex = Len(history) - 1
    /\ recorded = <<>>
    /\ snapshots = {}
    /\ histOp = [op |-> "new", ret |-> Undefined]
    /\ shape = "other"
    /\ nUndo = 0

\* record/undo/redo near the size limit: the cursor stays within MaxBelowTail
\* entries of the last one
HistFullNext ==
    \/ \E type \in HistIntents : HistRecord(type) /\ UNCHANGED <<cacheVars, agentVars>>
    \/ /\ currentIndex >= Len(history) - MaxBelowTail
       /\ HistUndo /\ UNCHANGED <<cacheVars, agentVars>>
    \/ HistRedo /\ UNCHANGED <<cacheVars, agentVars>>

\* ------------------------------------------ ProcessorRegistry, driven directly
RegistryTypes == {"analyze", "export"}
RegistryVersions == {Undefined, Some(""), Some("latest"), Some("1.0")}

\* the Processor objects handed to register(): two per version, all of one type
RegistryProcessors ==
    {[type |-> "analyze", version |-> version, name |-> name] :
        version \in RegistryVersions, name \in {"p", "q"}}

InitRegistry ==
    /\ registry = <<>>
    /\ registryOp = [op |-> "new"]

RegistryRegister(processor) ==
    /\ registry' = ProcessorRegistry_register(registry, processor)
    /\ registryOp' = [op |-> "register", processor |-> processor]

RegistryGet(type, version) ==
    /\ registryOp' = [op |-> "get", type |-> type, version |-> version,
                      ret |-> ProcessorRegistry_get(registry, type, version)]
    /\ UNCHANGED registry

RegistryHas(type, version) ==
    /\ registryOp' = [op |-> "has", type |-> type, version |-> version,
                      ret |-> ProcessorRegistry_has(registry, type, version)]
    /\ UNCHANGED registry

RegistryGetAll ==
    /\ registryOp' = [op |-> "getAll", ret |-> ProcessorRegistry_getAll(registry)]
    /\ UNCHANGED registry

RegistryNext ==
    \/ \E processor \in RegistryProcessors :
          RegistryRegister(processor)
          /\ UNCHANGED <<cacheVars, histVars, agentVars, recognizerVars, builderVars>>
    \/ \E type \in RegistryTypes, version \in RegistryVersions :
          RegistryGet(type, version)
          /\ UNCHANGED <<cacheVars, histVars, agentVars, recognizerVars, builderVars>>
    \/ \E type \in RegistryTypes, version \in RegistryVersions :
          RegistryHas(type, version)
          /\ UNCHANGED <<cacheVars, histVars, agentVars, recognizerVars, builderVars>>
    \/ RegistryGetAll /\ UNCHANGED <<cacheVars, histVars, agentVars, recognizerVars, builderVars>>

\* --------------------------------------- IntentRecognizerImpl, driven directly
RecognizerTokens ==
    {"/analyze", "/review", "/price", "/PRICE", "/export", "/help",
     "zh_fenxi", "zh_pinglun", "zh_jiage", "PDF", "zh_bangzhu",
     " ", "hello", "100"}

RECURSIVE MessagesOfLength(_)
MessagesOfLength(n) ==
    IF n = 0 THEN {<<>>}
    ELSE {Append(m, tok) : m \in MessagesOfLength(n - 1), tok \in RecognizerTokens}

RecognizerMessages == UNION {MessagesOfLength(n) : n \in 0..MaxTokens}

InitRecognizer == recognizerOp = [op |-> "new"]

\* a recognizer and the message it is about to be given
InitRecognizerInput ==
    \E message \in RecognizerMessages :
        recognizerOp = [op |-> "input", message |-> message]

Recognize ==
    /\ recognizerOp.op = "input"
    /\ recognizerOp' = [op |-> "recognize",
                        message |-> recognizerOp.message,
                        ret |-> recognize(recognizerOp.message)]

RecognizerNext ==
    Recognize /\ UNCHANGED <<cacheVars, histVars, agentVars, registryVars, builderVars>>

\* ------------------------------------------------ PolicyAgent, the actions
AgentMessages == {<<"/price", "100">>, <<"/help">>}
AgentChannels == {"slack"}
AgentUsers == {"u1"}
RegisterTypes == {"pricing"}
Plugins == {[onBeforeProcess |-> TRUE, onAfterProcess |-> TRUE]}
HookMessage == <<"hello">>

CallIds == 1..MaxCalls
Active(c) == calls[c].pc \notin {"idle", "done"}

InitAgent ==
    /\ enableHistory \in BOOLEAN
    /\ processors = initDefaultProcessors
    /\ plugins = <<>>
    /\ calls = [c \in CallIds |-> idleCall]

TheWorld(c) == World(calls[c], cache, history, currentIndex, recorded, now)

\* the effect of one step of call c on the state
Step(c, w) ==
    /\ calls' = [calls EXCEPT ![c] = w.call]
    /\ cache' = w.cache
    /\ history' = w.history
    /\ currentIndex' = w.currentIndex
    /\ recorded' = w.recorded
    /\ now' = w.now
    /\ UNCHANGED <<maxSize, ttlMs, cacheOp, evicted, setAt>>
    /\ UNCHANGED <<snapshots, histOp, shape, nUndo>>
    /\ UNCHANGED <<enableHistory, processors, plugins>>

use(plugin) ==
    /\ Len(plugins) < MaxPlugins
    /\ plugins' = Append(plugins, plugin)
    /\ UNCHANGED <<cacheVars, histVars, enableHistory, processors, calls>>

registerProcessor(type) ==
    /\ processors[type] # Some(customProcessor)
    /\ processors' = [processors EXCEPT ![type] = Some(customProcessor)]
    /\ UNCHANGED <<cacheVars, histVars, enableHistory, plugins, calls>>

\* handle(ctx) is called and runs up to its first await
HandleStart(c, message, channel, user, d) ==
    /\ calls[c].pc = "idle"
    /\ \A b \in CallIds : b < c => calls[b].pc # "idle"
    /\ LET overlap == \E b \in CallIds : Active(b)
           call == [idleCall EXCEPT !.message = message, !.channel = channel,
                                    !.user = user,
                                    !.startTime = now, !.overlapped = overlap]
           w == World(call, cache, history, currentIndex, recorded, now)
           w2 == preHooks(w, 1, d, plugins, processors)
       IN  /\ Len(plugins) = 0 => Advance(w, d)
           /\ Len(plugins) > 0 => d = 0
           /\ calls' = [b \in CallIds |->
                          IF b = c THEN w2.call
                          ELSE IF Active(b) THEN [calls[b] EXCEPT !.overlapped = TRUE]
                          ELSE calls[b]]
           /\ cache' = w2.cache
           /\ now' = w2.now
    /\ UNCHANGED <<maxSize, ttlMs, cacheOp, evicted, setAt>>
    /\ UNCHANGED <<histVars, enableHistory, processors, plugins>>

\* the awaited pre-hook of call c settles: it returns, it returns after
\* rewriting ctx.message, or it throws
PreHookSettle(c, outcome, d) ==
    /\ calls[c].pc = "pre"
    /\ outcome # "ok" => plugins[calls[c].i].onBeforeProcess
    /\ LET w == TheWorld(c)
           w1 == IF outcome = "rewrite" THEN [w EXCEPT !.call.message = HookMessage] ELSE w
       IN  IF outcome = "throw"
           THEN d = 0 /\ Step(c, catch(w, Error(<<"hook failed">>)))
           ELSE /\ IF calls[c].i + 1 > Len(plugins) THEN Advance(w1, d) ELSE d = 0
                /\ Step(c, preHooks(w1, calls[c].i + 1, d, plugins, processors))

\* a dispatcher that invokes the handler again when it rejects
ExecuteSettle_retryOnThrow(c, outcome) ==
    /\ calls[c].pc = "exec"
    /\ LET w == TheWorld(c) IN
       IF calls[c].result # Undefined
       THEN /\ outcome = "artifact"
            /\ Step(c, afterExecute(w, calls[c].result[1], plugins, enableHistory,
                                    maxSize, ttlMs))
       ELSE CASE outcome = "artifact" ->
                    Step(c, afterExecute(w, execute(customProcessor,
                                                    calls[c].intent[1].params, now),
                                         plugins, enableHistory, maxSize, ttlMs))
              [] outcome = "empty" ->
                    Step(c, afterExecute(w, [artifact |-> Undefined],
                                         plugins, enableHistory, maxSize, ttlMs))
              [] OTHER ->
                    /\ calls[c].invoked < MaxCalls
                    /\ Step(c, [w EXCEPT !.call.invoked = @ + 1])

\* the awaited processor.execute of call c settles
ExecuteSettle(c, outcome) ==
    /\ calls[c].pc = "exec"
    /\ LET w == TheWorld(c) IN
       IF calls[c].result # Undefined
       THEN /\ outcome = "artifact"
            /\ Step(c, afterExecute(w, calls[c].result[1], plugins, enableHistory,
                                    maxSize, ttlMs))
       ELSE CASE outcome = "artifact" ->
                    Step(c, afterExecute(w, execute(customProcessor,
                                                    calls[c].intent[1].params, now),
                                         plugins, enableHistory, maxSize, ttlMs))
              [] outcome = "empty" ->
                    Step(c, afterExecute(w, [artifact |-> Undefined],
                                         plugins, enableHistory, maxSize, ttlMs))
              [] OTHER ->
                    Step(c, catch(w, Error(<<"handler failed">>)))

\* the awaited post-hook of call c settles
PostHookSettle(c, outcome) ==
    /\ calls[c].pc = "post"
    /\ outcome # "ok" => plugins[calls[c].i].onAfterProcess
    /\ LET w == TheWorld(c) IN
       IF outcome = "throw"
       THEN Step(c, catch(w, Error(<<"hook failed">>)))
       ELSE Step(c, postHooks(w, calls[c].i + 1, plugins, maxSize, ttlMs))

AgentTick ==
    /\ now < MaxTime
    /\ now' = now + 1
    /\ UNCHANGED <<cache, maxSize, ttlMs, cacheOp, evicted, setAt>>
    /\ UNCHANGED <<histVars, agentVars>>

AgentNext ==
    \/ \E plugin \in Plugins : use(plugin)
    \/ \E type \in RegisterTypes : registerProcessor(type)
    \/ \E c \in CallIds, message \in AgentMessages, channel \in AgentChannels,
          user \in AgentUsers, d \in {0, 1} :
          HandleStart(c, message, channel, user, d)
    \/ \E c \in CallIds, outcome \in {"ok", "rewrite", "throw"}, d \in {0, 1} :
          PreHookSettle(c, outcome, d)
    \/ \E c \in CallIds, outcome \in {"artifact", "empty", "throw"} :
          ExecuteSettle(c, outcome)
    \/ \E c \in CallIds, outcome \in {"ok", "throw"} : PostHookSettle(c, outcome)
    \/ AgentTick

\* the dispatcher without plugins, given messages that differ in text, sender
\* and channel
KeyMessages == {<<"/review", "report-1">>, <<"/review", "report-2">>, <<"/price", "100">>}
KeyChannels == {"slack", "discord"}
KeyUsers == {"u1", "u2"}

AgentKeysNext ==
    \/ \E c \in CallIds, message \in KeyMessages, channel \in KeyChannels,
          user \in KeyUsers, d \in {0, 1} :
          HandleStart(c, message, channel, user, d)
    \/ \E c \in CallIds, outcome \in {"artifact", "empty", "throw"} :
          ExecuteSettle(c, outcome)
    \/ AgentTick

\* --------------------------------------------- the chain builders, the actions
BuilderKinds == {"analyze", "review", "pricing", "export"}

BuilderArgs(kind) ==
    CASE kind = "analyze" -> {"hello"}
      [] kind = "review" -> {"report-1"}
      [] kind = "pricing" -> {[productType |-> "saas", monthlyActiveUsers |-> 100],
                              [productType |-> "saas", monthlyActiveUsers |-> 200]}
      [] kind = "export" -> {"pdf"}

OptionValues(name) ==
    CASE name = "company" -> {"acme"}
      [] name = "category" -> {"risk"}
      [] name = "strictMode" -> {TRUE}
      [] name = "filter" -> {"open"}
      [] name = "status" -> {"pending"}
      [] name = "template" -> {"t1"}
      [] name = "filename" -> {"f1"}

AllOptionNames == UNION {OptionNames(kind) : kind \in BuilderKinds}

InitBuilders == builders = <<>>

\* agent.analyze(arg), agent.review(arg), agent.price(arg), agent.export(arg)
BuilderNew(kind, arg) ==
    /\ Len(builders) < MaxCalls
    /\ builders' = Append(builders, NewBuilder(kind, arg))
    /\ UNCHANGED <<cacheVars, histVars, agentVars>>

BuilderWith(b, name, value) ==
    /\ b \in 1..Len(builders)
    /\ name \in OptionNames(builders[b].kind)
    /\ builders[b].options[name] = Undefined
    /\ builders' = [builders EXCEPT ![b] = Builder_with(@, name, value)]
    /\ UNCHANGED <<cacheVars, histVars, agentVars>>

\* builder.execute(): agent.handle(context), up to the first await of handle()
BuilderExecute(b, c, d) ==
    /\ b \in 1..Len(builders)
    /\ builders[b].call = 0
    /\ LET context == Builder_execute(builders[b])
       IN  HandleStart(c, context.message, context.channel, context.user, d)
    /\ builders' = [builders EXCEPT ![b].call = c]

BuilderNext ==
    \/ \E kind \in BuilderKinds : \E arg \in BuilderArgs(kind) : BuilderNew(kind, arg)
    \/ \E b \in CallIds, name \in AllOptionNames :
          \E value \in OptionValues(name) : BuilderWith(b, name, value)
    \/ \E b \in CallIds, c \in CallIds, d \in {0, 1} : BuilderExecute(b, c, d)
    \/ \E c \in CallIds, outcome \in {"artifact", "empty", "throw"} :
          ExecuteSettle(c, outcome) /\ UNCHANGED builders
    \/ AgentTick /\ UNCHANGED builders

\* ---------------------------------------------------------- specifications
\* the objects a specification does not drive stay as constructed
InitRest == InitRecognizer /\ InitRegistry /\ InitBuilders

InitCacheSpec == InitCache /\ InitHist /\ InitAgent /\ enableHistory /\ InitRest

CacheSpecNext ==
    CacheNext /\ UNCHANGED <<histVars, agentVars, recognizerVars, registryVars, builderVars>>

SpecCache == InitCacheSpec /\ [][CacheSpecNext]_vars

InitHistSpec ==
    InitHist /\ InitCache /\ maxSize = MaxCap /\ InitAgent /\ enableHistory /\ InitRest

HistSpecNext == HistNext /\ UNCHANGED <<recognizerVars, registryVars, builderVars>>

SpecHist == InitHistSpec /\ [][HistSpecNext]_vars

InitHistFullSpec ==
    InitHistFull /\ InitCache /\ maxSize = MaxCap /\ InitAgent /\ enableHistory /\ InitRest

HistFullSpecNext == HistFullNext /\ UNCHANGED <<recognizerVars, registryVars, builderVars>>

SpecHistFull == InitHistFullSpec /\ [][HistFullSpecNext]_vars

InitAgentSpec ==
    /\ InitCache /\ maxSize = MaxCap
    /\ InitHist
    /\ InitAgent
    /\ InitRest

AgentSpecNext == AgentNext /\ UNCHANGED <<recognizerVars, registryVars, builderVars>>

SpecAgent == InitAgentSpec /\ [][AgentSpecNext]_vars

AgentKeysSpecNext == AgentKeysNext /\ UNCHANGED <<recognizerVars, registryVars, builderVars>>

SpecAgentKeys == InitAgentSpec /\ [][AgentKeysSpecNext]_vars

BuilderSpecNext == BuilderNext /\ UNCHANGED <<recognizerVars, registryVars>>

SpecBuilder == InitAgentSpec /\ [][BuilderSpecNext]_vars

\* an awaited pre-hook, handler or post-hook of call c settles
PreSettle(c) ==
    /\ \E outcome \in {"ok", "rewrite", "throw"}, d \in {0, 1} :
          PreHookSettle(c, outcome, d)
    /\ UNCHANGED <<recognizerVars, registryVars, builderVars>>

ExecSettle(c) ==
    /\ \E outcome \in {"artifact", "empty", "throw"} : ExecuteSettle(c, outcome)
    /\ UNCHANGED <<recognizerVars, registryVars, builderVars>>

PostSettle(c) ==
    /\ \E outcome \in {"ok", "throw"} : PostHookSettle(c, outcome)
    /\ UNCHANGED <<recognizerVars, registryVars, builderVars>>

\* every hook and handler that a call awaits eventually settles: weak fairness
\* of the three settle steps of each call. A pre-hook's and a handler's settle
\* step is enabled exactly while the call waits at "pre" or at "exec" (a normal
\* return is always possible there), so their weak fairness is written with
\* that state predicate in place of ENABLED <<PreSettle(c)>>_vars and of
\* ENABLED <<ExecSettle(c)>>_vars.
SpecAgentSettling ==
    /\ SpecAgent
    /\ \A c \in CallIds :
          /\ []<>(calls[c].pc # "pre") \/ []<><<PreSettle(c)>>_vars
          /\ []<>(calls[c].pc # "exec") \/ []<><<ExecSettle(c)>>_vars
          /\ WF_vars(PostSettle(c))

InitRecognizerSpec ==
    /\ InitCache /\ maxSize = MaxCap
    /\ InitHist
    /\ InitAgent /\ enableHistory
    /\ InitRecognizerInput /\ InitRegistry /\ InitBuilders

SpecRecognizer == InitRecognizerSpec /\ [][RecognizerNext]_vars

InitRegistrySpec ==
    /\ InitCache /\ maxSize = MaxCap
    /\ InitHist
    /\ InitAgent /\ enableHistory
    /\ InitRest

SpecRegistry == InitRegistrySpec /\ [][RegistryNext]_vars

\* ------------------------------------------------------ claims on SmartCache

\* C1: after any sequence of set/get/has/delete/clear the number of stored
\* entries never exceeds maxSize, for every capacity n >= 0 and every string
\* key, the empty string included.
C1_CapacityBound == Len(cache) <= maxSize

\* the entry at position i of Map c comes first in the order (accessCount,
\* lastAccessed, insertion position)
IsVictim(c, i) ==
    \A j \in 1..Len(c) : j # i =>
        \/ c[i].accessCount < c[j].accessCount
        \/ /\ c[i].accessCount = c[j].accessCount
           /\ c[i].lastAccessed < c[j].lastAccessed
        \/ /\ c[i].accessCount = c[j].accessCount
           /\ c[i].lastAccessed = c[j].lastAccessed
           /\ i < j

ReadPresent ==
    IF cacheOp.op = "has" THEN cacheOp.ret = Some(TRUE) ELSE cacheOp.ret # Undefined

\* C3: a key set at time T (and not deleted, cleared or evicted since; an
\* overwrite restarts T) is reported absent by get and has at every time
\* > T + ttlMs and present at every time <= T + ttlMs.
C3_TtlExpiry ==
    (cacheOp.op \in {"get", "has"} /\ setAt[cacheOp.key] >= 0) =>
        (ReadPresent <=> now <= setAt[cacheOp.key] + ttlMs)

\* C3 witness: has() reports an entry absent after its deadline in a cache
\* that is below capacity.
C3_Witness ==
    /\ cacheOp.op = "has"
    /\ cacheOp.ret = Some(FALSE)
    /\ setAt[cacheOp.key] >= 0
    /\ now > setAt[cacheOp.key] + ttlMs
    /\ Len(cache) < maxSize

\* the effect a read of key k at time t must have on Map c, giving c2: a live
\* entry keeps its place, key, value and deadline, its accessCount goes up by
\* one and its lastAccessed becomes t; an expired entry is removed; every other
\* entry stays as it is
ReadEffect(c, c2, k, t) ==
    IF ~MapHas(c, k) THEN c2 = c
    ELSE LET i == CHOOSE i \in 1..Len(c) : c[i].key = k IN
         IF t > c[i].expiresAt
         THEN c2 = SubSeq(c, 1, i - 1) \o SubSeq(c, i + 1, Len(c))
         ELSE /\ Len(c2) = Len(c)
              /\ \A j \in 1..Len(c) : j # i => c2[j] = c[j]
              /\ c2[i] = [key |-> k,
                          value |-> c[i].value,
                          expiresAt |-> c[i].expiresAt,
                          accessCount |-> c[i].accessCount + 1,
                          lastAccessed |-> t]

Live(c, k, t) == MapHas(c, k) /\ t <= MapGet(c, k).expiresAt

\* C22: get(key) on a live entry returns the stored value, adds exactly 1 to
\* that entry's accessCount and sets its lastAccessed to the current time,
\* leaving its expiresAt and every other entry as they were; on an expired
\* entry it deletes exactly that entry and returns absent; on a missing key it
\* changes nothing and returns absent.
C22_GetFrame ==
    [][cacheOp'.op = "get" =>
          /\ ReadEffect(cache, cache', cacheOp'.key, now)
          /\ cacheOp'.ret = IF Live(cache, cacheOp'.key, now)
                            THEN Some(MapGet(cache, cacheOp'.key).value)
                            ELSE Undefined]_vars

\* C22 witness: a get after the clock advanced returned the value of a live
\* entry next to another entry; the entry is counted once, stamped with the
\* time of the read, and its deadline is still the one set() gave it.
C22_Witness ==
    /\ cacheOp.op = "get"
    /\ cacheOp.ret # Undefined
    /\ Len(cache) = 2
    /\ now > 0
    /\ MapGet(cache, cacheOp.key).accessCount = 1
    /\ MapGet(cache, cacheOp.key).lastAccessed = now
    /\ MapGet(cache, cacheOp.key).expiresAt = setAt[cacheOp.key] + ttlMs
    /\ setAt[cacheOp.key] < now

\* C24: set(key, value) evicts exactly one entry if and only if size >= maxSize
\* when it is called, and then stores key with the value, accessCount 0 and
\* expiresAt = now + ttlMs, also when key is already present.
C24_SetEvictsOneAtCapacity ==
    [][cacheOp'.op = "set" =>
          /\ Len(evicted') = (IF Len(cache) >= maxSize THEN 1 ELSE 0)
          /\ MapHas(cache', cacheOp'.key)
          /\ MapGet(cache', cacheOp'.key).accessCount = 0
          /\ MapGet(cache', cacheOp'.key).expiresAt = now + ttlMs]_vars

\* ---------------------------------------------------- claims on StateManager

\* C4: after any sequence of record, undo, redo, clear, getSnapshot and
\* restoreSnapshot (of a snapshot getSnapshot returned) the cursor is within
\* -1 .. length-1.
C4_CursorInRange == -1 <= currentIndex /\ currentIndex <= Len(history) - 1

\* C4 witness: a restored snapshot put the cursor before the first entry of a
\* non-empty log while the log in use had been cleared or rewritten.
C4_Witness ==
    /\ histOp.op = "restoreSnapshot"
    /\ currentIndex = -1
    /\ Len(history) > 0
    /\ Len(recorded) > Len(history)

C6_TruncateOnRecord ==
    [][Len(recorded') > Len(recorded) =>
          /\ history' = Append(SubSeq(history, 1, currentIndex + 1),
                               recorded'[Len(recorded')])
          /\ currentIndex' = Len(history') - 1]_vars

\* C6 witness: record(); record(); undo(); record() left size() = 2 and
\* recent(2) = [entry1, entry3].
C6_Witness ==
    /\ histOp.op = "record"
    /\ Len(recorded) = 3
    /\ size(history) = 2
    /\ recent(history, 2) = <<recorded[1], recorded[3]>>

\* C12: record/undo/redo never leave more than maxHistorySize (100) entries; a
\* record() that would exceed the limit drops entries from the oldest end only,
\* keeps the most recent ones in their order and leaves the cursor on the
\* newly recorded last entry.
C12_HistoryCap ==
    [][/\ Len(history') <= maxHistorySize
       /\ Len(recorded') > Len(recorded) =>
             LET kept == Append(SubSeq(history, 1, currentIndex + 1),
                                recorded'[Len(recorded')])
             IN  /\ history' = SubSeq(kept, Max(Len(kept) - maxHistorySize, 0) + 1,
                                      Len(kept))
                 /\ currentIndex' = Len(history') - 1]_vars

\* C12 witness: a record() on a full history dropped the oldest entry and put
\* the new entry last.
C12_Witness ==
    /\ histOp.op = "record"
    /\ Len(recorded) >= 2
    /\ Len(history) = maxHistorySize
    /\ history[1] = earlierEntry(2)
    /\ history[maxHistorySize] = recorded[Len(recorded)]
    /\ history[maxHistorySize - 1] = recorded[Len(recorded) - 1]
    /\ currentIndex = maxHistorySize - 1

\* C13: after two record() calls on a new StateManager, undo() returns an
\* entry (not null) and size() is 1: the undo took one entry off the size.
C13_UndoReducesSize ==
    (histOp.op = "undo" /\ shape = "undos" /\ Len(recorded) = 2 /\ nUndo = 1) =>
        /\ histOp.ret # Undefined
        /\ size(history) = 1

\* C14: for every n >= 0, recent(n) returns the last min(n, size()) entries of
\* the log in log order: nothing for n = 0, the whole log for n > size().
C14_RecentLastN ==
    histOp.op = "recent" =>
        LET k == Min(histOp.n, size(history))
        IN  histOp.ret = SubSeq(history, Len(history) - k + 1, Len(history))

\* ------------------------------------------- claims on IntentRecognizerImpl
TableOrder == <<"analyze", "review", "pricing", "export", "help">>

\* C15: recognize(message) returns the first type of the table order analyze,
\* review, pricing, export, help one of whose patterns matches the trimmed,
\* lower-cased message, whatever later types match too; when no pattern
\* matches it returns unknown with params {raw: message} and confidence 0.5.
C15_FirstTableMatch ==
    recognizerOp.op = "recognize" =>
        LET m == lowered(trim(recognizerOp.message))
            hit(k) == \E i \in 1..Len(patterns[TableOrder[k]]) :
                         test(patterns[TableOrder[k]][i], m)
        IN  /\ \A k \in 1..Len(TableOrder) :
                  (hit(k) /\ \A j \in 1..(k - 1) : ~hit(j))
                  => recognizerOp.ret.type = TableOrder[k]
            /\ (\A k \in 1..Len(TableOrder) : ~hit(k))
                  => recognizerOp.ret =
                        [type |-> "unknown",
                         params |-> << <<"raw", JSString(recognizerOp.message)>> >>,
                         confidence |-> <<50, 50>>]

\* C15 witness: '/price' followed by an analyze keyword was classified analyze.
C15_Witness ==
    /\ recognizerOp.op = "recognize"
    /\ recognizerOp.message = <<"/price", "zh_fenxi">>
    /\ recognizerOp.ret.type = "analyze"

\* ---------------------------------------------- claims on ProcessorRegistry
\* C16: after register(p), with or without p.version, get(p.type) returns p
\* and has(p.type) is true, whatever was registered for that type before; and
\* get of a type no handler was ever registered for returns undefined.
C16_RegisterOverwrites ==
    /\ registryOp.op = "register" =>
          /\ ProcessorRegistry_get(registry, registryOp.processor.type, Undefined)
                = Some(registryOp.processor)
          /\ ProcessorRegistry_has(registry, registryOp.processor.type, Undefined)
    /\ (/\ registryOp.op = "get"
        /\ \A i \in 1..Len(registry) : registry[i].value.type # registryOp.type)
          => registryOp.ret = Undefined

Done(c) == calls[c].pc = "done"

\* the time at which call c returned
DoneAt(c) == calls[c].startTime + calls[c].ret.duration

\* the cache key of call c: the one handle() computed, or the one of its message
KeyOf(c) ==
    IF calls[c].cacheKey # Undefined THEN calls[c].cacheKey[1]
    ELSE generateCacheKey(recognize(calls[c].message), calls[c])

\* calls c and c+1 are two consecutive handle() calls: both have returned and
\* no other call ran while either of them did
Consecutive(c) ==
    /\ Done(c) /\ Done(c + 1)
    /\ ~calls[c].overlapped /\ ~calls[c + 1].overlapped

HandlerMissing(c) ==
    /\ calls[c].intent # Undefined
    /\ calls[c].invoked = 0
    /\ calls[c].ret.fromCache # Some(TRUE)
    /\ calls[c].thrown = Undefined

\* C8: handle() never rejects; a throwing pre-hook, post-hook or handler and a
\* missing handler all end in a returned {success: false, error: <message>}.
C8_FailuresAreReturned ==
    \A c \in CallIds : Done(c) =>
        /\ calls[c].settled = "returned"
        /\ calls[c].thrown # Undefined =>
              /\ ~calls[c].ret.success
              /\ calls[c].ret.error = Some(calls[c].thrown[1].message)
        /\ HandlerMissing(c) =>
              /\ ~calls[c].ret.success
              /\ calls[c].ret.error # Undefined
        /\ calls[c].ret.success <=> (calls[c].thrown = Undefined /\ ~HandlerMissing(c))

\* C8 witness: a post-hook threw after the handler had returned its result.
C8_Witness ==
    \E c \in CallIds :
        /\ Done(c)
        /\ calls[c].result # Undefined
        /\ calls[c].thrown = Some(Error(<<"hook failed">>))
        /\ ~calls[c].ret.success

\* whether string (a token sequence) contains the token tok
Contains(string, tok) == \E i \in 1..Len(string) : string[i] = tok

\* C9: handle() for a message whose intent type has no registered handler
\* returns success=false with an error that contains the intent type, invokes
\* no handler and does not throw.
C9_MissingHandler ==
    \A c \in CallIds :
        (/\ Done(c)
         /\ calls[c].intent # Undefined
         /\ processors[calls[c].intent[1].type] = Undefined)
        => /\ calls[c].settled = "returned"
           /\ ~calls[c].ret.success
           /\ calls[c].ret.error # Undefined
           /\ Contains(calls[c].ret.error[1], calls[c].intent[1].type)
           /\ calls[c].invoked = 0

\* C9 witness: after a call that was served by a handler, a help message found
\* no handler.
C9_Witness ==
    /\ Done(1) /\ calls[1].ret.success
    /\ Done(2)
    /\ calls[2].intent # Undefined
    /\ calls[2].intent[1].type = "help"
    /\ ~calls[2].ret.success

\* C10: with enableHistory on every handle() call records exactly one history
\* entry, whether it succeeded, failed or was served from the cache; with
\* enableHistory off it records none.
C10_OneEntryPerCall ==
    \A c \in CallIds : Done(c) =>
        calls[c].nRecorded = IF enableHistory THEN 1 ELSE 0

\* the position of a step of handle() in the order of its source
Rank(name) ==
    CASE name = "pre" -> 1
      [] name = "recognize" -> 2
      [] name = "lookup" -> 3
      [] name = "handler" -> 4
      [] name = "record" -> 5
      [] name = "post" -> 6
      [] name = "store" -> 7
      [] name = "return" -> 8

\* the steps s of one call follow the order of handle(): each step comes later
\* in that order than the one before it, except that the hooks of one phase
\* run one after the other for plugins 1, 2, ...
InOrder(s) ==
    \A j \in 1..Len(s) :
        IF j > 1 /\ s[j][1] \in {"pre", "post"} /\ s[j - 1][1] = s[j][1]
        THEN s[j][2] = s[j - 1][2] + 1
        ELSE /\ j > 1 => Rank(s[j - 1][1]) < Rank(s[j][1])
             /\ s[j][1] \in {"pre", "post"} => s[j][2] = 1

Count(s, name) == Cardinality({j \in 1..Len(s) : s[j][1] = name})

C17_DefaultsSucceed ==
    (processors = initDefaultProcessors /\ plugins = <<>>) =>
        \A c \in CallIds :
            (Done(c) /\ calls[c].intent[1].type \in {"analyze", "review", "pricing", "export"})
            => /\ calls[c].ret.success
               /\ calls[c].ret.artifact # Undefined

\* C18: every handle() result with fromCache=true carries an artifact, one that
\* a handler produced in another call for the same cache key, also when the
\* entry's TTL runs out between the has() and the get() of the cache check.
C18_CacheHitHasArtifact ==
    \A c \in CallIds :
        (Done(c) /\ calls[c].ret.fromCache = Some(TRUE))
        => /\ calls[c].ret.artifact # Undefined
           /\ \E b \in CallIds \ {c} :
                 /\ calls[b].cacheKey = calls[c].cacheKey
                 /\ calls[b].result # Undefined
                 /\ calls[b].result[1].artifact = calls[c].ret.artifact

\* a hook of call c threw
HookThrew(c) == calls[c].thrown = Some(Error(<<"hook failed">>))

\* C19: a throwing pre-hook or post-hook does not abort handle(): recognition
\* and the remaining steps still run and the call returns the handler's
\* outcome, success=true with the artifact, which is also stored in the cache.
C19_HookThrowContinues ==
    \A c \in CallIds :
        (Done(c) /\ HookThrew(c)) =>
            /\ Count(calls[c].steps, "recognize") = 1
            /\ calls[c].result # Undefined =>
                  /\ calls[c].ret.success
                  /\ calls[c].ret.artifact = calls[c].result[1].artifact
                  /\ calls[c].ret.artifact # Undefined
                        => Count(calls[c].steps, "store") = 1

\* C20: post-hooks run in exactly the handle() calls whose handler was invoked
\* and returned: such a call goes on to the first registered post-hook, and a
\* call that ran a post-hook has invoked its handler, which did not throw. A
\* call that hits the cache or finds no handler returns right after the
\* lookup, with no handler invoked and no post-hook run, after every
\* registered pre-hook and the recognition have run.
C20_PostHooksAfterHandler ==
    [][\A c \in CallIds :
          LET call == calls'[c]
              s == call.steps
              new == {s[j][1] : j \in (Len(calls[c].steps) + 1)..Len(s)}
              handlerThrew == call.thrown = Some(Error(<<"handler failed">>))
          IN  /\ (calls[c].pc = "exec" /\ call.pc # "exec" /\ ~handlerThrew
                     /\ Len(plugins) > 0)
                    => <<"post", 1>> \in {s[j] : j \in 1..Len(s)}
              /\ Count(s, "post") > 0 =>
                    /\ call.invoked = 1
                    /\ call.result # Undefined
                    /\ ~handlerThrew
              /\ "recognize" \in new => Count(s, "pre") = Len(plugins)
              /\ (call.pc = "done" /\ call.intent # Undefined /\ call.invoked = 0) =>
                    /\ Count(s, "post") = 0
                    /\ Len(s) >= 3
                    /\ SubSeq(s, Len(s) - 2, Len(s))
                          = <<<<"recognize", 0>>, <<"lookup", 0>>, <<"return", 0>>>>
                    /\ \/ call.ret.fromCache = Some(TRUE)
                       \/ ~call.ret.success /\ call.ret.error # Undefined]_vars

\* C20 witness: with a plugin registered, one call was served by its handler
\* and ran the post-hook, a later one hit the cache and returned after its
\* pre-hook, recognition and lookup without running the post-hook.
C20_Witness ==
    /\ Len(plugins) > 0
    /\ Done(1) /\ Count(calls[1].steps, "post") = 1 /\ calls[1].ret.success
    /\ Done(2)
    /\ calls[2].ret.fromCache = Some(TRUE)
    /\ calls[2].steps = <<<<"pre", 1>>, <<"recognize", 0>>, <<"lookup", 0>>,
                          <<"return", 0>>>>

\* key k names an entry of Map c2 that c did not hold, or held with another
\* value or deadline
Written(c, c2, k) ==
    /\ MapHas(c2, k)
    /\ \/ ~MapHas(c, k)
       \/ MapGet(c2, k).value # MapGet(c, k).value
       \/ MapGet(c2, k).expiresAt # MapGet(c, k).expiresAt

\* C21: a step of handle() adds or replaces a cache entry only as the store of
\* a call whose handler returned an artifact, under that call's cache key, with
\* that artifact, after all registered post-hooks have run; a call that ends in
\* a cache hit, a missing handler, a thrown handler or hook error, or a handler
\* result without an artifact has stored nothing.
C21_CacheWrites ==
    [][\A c \in CallIds :
          LET call == calls'[c]
              s == call.steps
              new == {s[j][1] : j \in (Len(calls[c].steps) + 1)..Len(s)}
          IN  /\ "store" \in new =>
                    /\ call.result # Undefined
                    /\ call.result[1].artifact # Undefined
                    /\ MapHas(cache', call.cacheKey[1])
                    /\ MapGet(cache', call.cacheKey[1]).value = call.result[1].artifact[1]
                    /\ Count(s, "post") = Len(plugins)
                    /\ call.pc = "done" /\ call.ret.success
              /\ (new # {} /\ "store" \notin new) =>
                    \A i \in 1..Len(cache') : ~Written(cache, cache', cache'[i].key)
              /\ "store" \in new =>
                    \A i \in 1..Len(cache') :
                        Written(cache, cache', cache'[i].key)
                        => cache'[i].key = call.cacheKey[1]
              /\ (call.pc = "done" /\ (\/ call.ret.fromCache = Some(TRUE)
                                       \/ ~call.ret.success
                                       \/ call.ret.artifact = Undefined))
                    => Count(s, "store") = 0]_vars

\* C21 witness: a call whose post-hook threw after its handler had returned an
\* artifact stored nothing; a later call with the same key stored its own
\* artifact after its post-hook, and that is the entry the cache holds.
C21_Witness ==
    \E c, b \in CallIds :
        /\ Done(c) /\ Done(b)
        /\ HookThrew(b) /\ calls[b].result # Undefined
        /\ calls[b].result[1].artifact # Undefined
        /\ Count(calls[b].steps, "store") = 0
        /\ Count(calls[c].steps, "post") = 1
        /\ Count(calls[c].steps, "store") = 1
        /\ calls[c].cacheKey = calls[b].cacheKey
        /\ calls[c].result[1].artifact # calls[b].result[1].artifact
        /\ MapHas(cache, calls[c].cacheKey[1])
        /\ MapGet(cache, calls[c].cacheKey[1]).value = calls[c].result[1].artifact[1]

\* C23: has(key) is true exactly when get(key) at the same instant returns a
\* value, and it changes the cache as that get does (accessCount + 1 and
\* lastAccessed on a live entry, deletion of an expired one). Seen through
\* handle(): the cache check is a hit exactly when a get at the time of has()
\* would return a value; on a miss the cache is left as that get leaves it; on
\* a hit it is left as that get followed by the get of the hit leaves it, so
\* that the entry whose artifact is returned has its accessCount raised by 2.
C23_HasIsGet ==
    [][\A c \in CallIds :
          LET call == calls'[c]
              s == call.steps
              new == {s[j][1] : j \in (Len(calls[c].steps) + 1)..Len(s)}
              k == call.cacheKey[1]
              first == SmartCache_get(cache, k, now)
              second == SmartCache_get(first.cache, k, now')
              hit == call.pc = "done" /\ call.ret.fromCache = Some(TRUE)
          IN  "lookup" \in new =>
                 /\ hit <=> first.ret # Undefined
                 /\ ReadEffect(cache, first.cache, k, now)
                 /\ ~hit => cache' = first.cache
                 /\ hit => /\ cache' = second.cache
                           /\ call.ret.artifact = second.ret
                 /\ (hit /\ call.ret.artifact # Undefined) =>
                       /\ MapGet(cache', k).accessCount = MapGet(cache, k).accessCount + 2
                       /\ MapGet(cache', k).lastAccessed = now']_vars

\* C23 witness: a call returned an artifact from the cache, and the entry,
\* stored by an earlier call and read by this one only, has accessCount 2.
C23_Witness ==
    /\ Done(1) /\ calls[1].ret.fromCache = Some(FALSE)
    /\ Done(2) /\ calls[2].ret.fromCache = Some(TRUE)
    /\ calls[2].ret.artifact # Undefined
    /\ MapHas(cache, calls[2].cacheKey[1])
    /\ MapGet(cache, calls[2].cacheKey[1]).accessCount = 2

\* C26: when every hook and handler that a call awaits eventually settles,
\* every handle() call that was started eventually returns; no call invokes
\* its handler more than once; and no step other than the handler's settling
\* takes a call out of its wait for the handler, however far the clock runs.
C26_Termination ==
    /\ \A c \in CallIds : (calls[c].pc # "idle") ~> (calls[c].pc = "done")
    /\ [](\A c \in CallIds : calls[c].invoked <= 1)
    /\ [][\A c \in CallIds :
             (calls[c].pc = "exec" /\ calls'[c].pc # "exec") =>
                 \E outcome \in {"artifact", "empty", "throw"} : ExecuteSettle(c, outcome)]_vars

\* C26 witness: a call has returned after its pre-hook, its handler and its
\* post-hook settled, while another call still waits for its handler at the
\* end of the clock's range.
C26_Witness ==
    \E c, b \in CallIds :
        /\ Done(c) /\ calls[c].invoked = 1
        /\ Count(calls[c].steps, "pre") = 1
        /\ Count(calls[c].steps, "post") = 1
        /\ calls[b].pc = "exec"
        /\ now = MaxTime

\* call c takes the step `name` of handle() in this transition
Takes(c, name) == Count(calls'[c].steps, name) > Count(calls[c].steps, name)

\* no call other than a and b has stored under a's key
OnlyThese(a, b) ==
    \A x \in CallIds \ {a, b} :
        Count(calls[x].steps, "store") = 0 \/ calls[x].cacheKey # calls[a].cacheKey

\* call a has missed the cache and has neither stored nor returned
InFlight(a) == calls[a].pc \in {"exec", "post"}

\* calls a and b used the same key and both stored, a before b
StoredInTurn(a, b) ==
    /\ Done(a) /\ Done(b) /\ calls[a].cacheKey = calls[b].cacheKey
    /\ Count(calls[a].steps, "store") = 1
    /\ Count(calls[b].steps, "store") = 1
    /\ calls[a].storedAt < calls[b].storedAt

\* each handler ran once and the history holds one entry per handler
\* completion, those of a and b among them
LaterStoreWins(a, b) ==
    /\ calls[a].invoked = 1 /\ calls[b].invoked = 1
    /\ enableHistory =>
          Len(history) = Cardinality({x \in CallIds : Count(calls[x].steps, "record") = 1})
    /\ enableHistory =>
          {calls[a].result[1], calls[b].result[1]}
              \subseteq {history[j].result : j \in 1..Len(history)}

SameKeyParts(c) ==
    /\ calls[c].channel = calls[c + 1].channel
    /\ calls[c].intent[1].type = calls[c + 1].intent[1].type
    /\ calls[c].intent[1].params = calls[c + 1].intent[1].params

\* C28: whether a handle() call hits the cache, and the artifact it then
\* returns, depend only on (channel, intent type, extracted params): after a
\* call that stored an artifact, the next call with the same three, looked up
\* within the TTL, returns that artifact with fromCache=true without invoking
\* its handler, whatever its message text and its user; a next call that
\* differs in one of the three has another key and misses.
C28_KeyIgnoresTextAndUser ==
    \A c \in 1..(MaxCalls - 1) :
        (/\ Consecutive(c)
         /\ calls[c].ret.success
         /\ calls[c].ret.fromCache = Some(FALSE)
         /\ calls[c].ret.artifact # Undefined
         /\ calls[c + 1].lookupAt >= 0)
        => /\ SameKeyParts(c) <=> calls[c].cacheKey = calls[c + 1].cacheKey
           /\ (SameKeyParts(c) /\ calls[c + 1].lookupAt <= calls[c].storedAt + ttlMs)
                 => /\ calls[c + 1].ret.success
                    /\ calls[c + 1].ret.fromCache = Some(TRUE)
                    /\ calls[c + 1].ret.artifact = calls[c].ret.artifact
                    /\ calls[c + 1].invoked = 0
           /\ (\A b \in 1..c : calls[b].cacheKey # calls[c + 1].cacheKey)
                 => /\ ~SameKeyParts(c)
                    /\ calls[c + 1].ret.fromCache = Some(FALSE)
                    /\ calls[c + 1].invoked = 1

\* C28 witness: '/review report-2' sent by another user after '/review
\* report-1' returned the first call's artifact from the cache.
C28_Witness ==
    /\ Consecutive(1)
    /\ calls[1].message = <<"/review", "report-1">>
    /\ calls[2].message = <<"/review", "report-2">>
    /\ calls[1].user # calls[2].user
    /\ calls[1].intent[1].params = << >>
    /\ calls[1].ret.fromCache = Some(FALSE)
    /\ calls[2].ret.fromCache = Some(TRUE)
    /\ calls[2].ret.artifact = calls[1].ret.artifact
    /\ calls[2].ret.artifact # Undefined

\* entry e is past its deadline at time t
Expired(e, t) == t > e.expiresAt

\* the Map c with every deadline erased
NoDeadlines(c) == [i \in 1..Len(c) |-> [c[i] EXCEPT !.expiresAt = 0]]

Keys(c) == {c[i].key : i \in 1..Len(c)}

\* C29: nothing removes an entry in the background: an entry leaves the Map
\* only when a get or has of its own key finds it expired, when it is deleted
\* or the Map is cleared, or when set() evicts it; until then an expired entry
\* stays and is counted by getStats().size, across clock advances and reads of
\* other keys; and the entry set() evicts is chosen without looking at the
\* deadlines, so it may be a live one while an expired one stays.
C29_ExpiredEntriesStay ==
    [][/\ \A i \in 1..Len(cache) :
             ~MapHas(cache', cache[i].key) =>
                 \/ /\ cacheOp'.op \in {"get", "has"}
                    /\ cacheOp'.key = cache[i].key
                    /\ Expired(cache[i], now)
                 \/ /\ cacheOp'.op = "set"
                    /\ Len(cache) >= maxSize
                    /\ IsVictim(cache, i)
                 \/ cacheOp'.op = "other" /\ now' = now
       /\ now' # now => cache' = cache
       /\ SmartCache_getStats(cache', maxSize).size
            = Cardinality({i \in 1..Len(cache') : Expired(cache'[i], now')})
              + Cardinality({i \in 1..Len(cache') : ~Expired(cache'[i], now')})
       /\ (cacheOp'.op = "set" /\ Len(cache) >= maxSize) =>
             /\ Keys(evictLRU(cache)) = Keys(evictLRU(NoDeadlines(cache)))
             /\ Keys(cache') = Keys(evictLRU(cache)) \cup {cacheOp'.key}]_vars

\* C29 witness: set() on a full cache has just evicted a live entry while an
\* expired entry is still stored and counted.
C29_Witness ==
    /\ cacheOp.op = "set"
    /\ Len(evicted) = 1 /\ ~Expired(evicted[1], now)
    /\ \E i \in 1..Len(cache) : Expired(cache[i], now)
    /\ SmartCache_getStats(cache, maxSize).size = 2

\* ---------------------------------------------- claims on the chain builders
\* builders a and b were constructed with the same argument; a PricingBuilder's
\* argument is its params
SameArgument(a, b) ==
    /\ builders[a].kind = builders[b].kind
    /\ builders[a].kind # "pricing" => builders[a].arg = builders[b].arg

====
